---- MODULE Spec2Model ----
(***************************************************************************)
(* A model of workout_logger.py: a menu-driven tracker that appends        *)
(* workout and meal entries to JSON files and derives personal records,    *)
(* streaks, a weekly summary and a progress chart from them.               *)
(*                                                                         *)
(* Texts typed by the user are tuples of one-character strings, so that    *)
(* parse_weight, parse_number, int and float really parse.  An Optional    *)
(* value is a tuple: None is <<>> and a present value v is <<v>>.  A typed *)
(* float x is the number of tenths x * 10, and a weight of w kilograms the *)
(* integer w * 10^7: both are exact for numerals with at most one          *)
(* fractional digit, also after the pound-to-kilogram factor 0.453592.     *)
(* A dict is the sequence of its <<key, value>> pairs in insertion order.  *)
(* A file is missing, corrupt (not a JSON document) or holds a value.      *)
(***************************************************************************)
EXTENDS Integers, Sequences, FiniteSets, TLC

VARIABLES
    now,        \* the wall clock read by datetime.now(): [day, hm]
    fs,         \* the four JSON files: path -> [status, data]
    pc,         \* where main() is: menu, inside a session, inside log_meal, ...
    fault,      \* the unhandled exception that ended the process, or "none"
    session,    \* locals of log_workout: muscles, session_workouts, and the
                \* seconds the rest timer has left
    meal,       \* locals of log_meal: custom_foods, new_custom_foods, meals_today
    out         \* what the last operation printed or returned

vars == <<now, fs, pc, fault, session, meal, out>>

None == <<>>
Some(v) == <<v>>

-----------------------------------------------------------------------------
(* Files *)

WORKOUT_FILE == "workouts.json"
MEALS_FILE == "meals.json"
CUSTOM_FOODS_FILE == "custom_foods.json"
TEMPLATES_FILE == "templates.json"

Paths == {WORKOUT_FILE, MEALS_FILE, CUSTOM_FOODS_FILE, TEMPLATES_FILE}

Missing == [status |-> "missing", data |-> <<>>]
Corrupt == [status |-> "corrupt", data |-> <<>>]
Stored(d) == [status |-> "ok", data |-> d]

\* json.load raises JSONDecodeError on a file that exists but does not decode;
\* neither loader catches it.
load_raises(filepath) == fs[filepath].status = "corrupt"

\* load_data: the decoded list when the file exists, [] when it does not.
load_data(filepath) ==
    IF fs[filepath].status = "ok" THEN fs[filepath].data ELSE <<>>

\* load_dict_data: the decoded dict when the file exists, {} when it does not.
load_dict_data(filepath) ==
    IF fs[filepath].status = "ok" THEN fs[filepath].data ELSE <<>>

\* save_data: the whole file is overwritten with the document.
save_data(files, filepath, data) == [files EXCEPT ![filepath] = Stored(data)]

-----------------------------------------------------------------------------
(* Text *)

Upper == <<"A","B","C","D","E","F","G","H","I","J","K","L","M",
           "N","O","P","Q","R","S","T","U","V","W","X","Y","Z">>
Lower == <<"a","b","c","d","e","f","g","h","i","j","k","l","m",
           "n","o","p","q","r","s","t","u","v","w","x","y","z">>
Digits == <<"0","1","2","3","4","5","6","7","8","9">>

lower_char(c) ==
    IF \E i \in 1..Len(Upper) : Upper[i] = c
    THEN Lower[CHOOSE i \in 1..Len(Upper) : Upper[i] = c]
    ELSE c

\* str.lower on a text
lower(s) == [i \in 1..Len(s) |-> lower_char(s[i])]

RECURSIVE lstrip(_)
lstrip(s) == IF s # <<>> /\ Head(s) = " " THEN lstrip(Tail(s)) ELSE s

RECURSIVE rstrip(_)
rstrip(s) ==
    IF s # <<>> /\ s[Len(s)] = " " THEN rstrip(SubSeq(s, 1, Len(s) - 1)) ELSE s

\* str.strip
strip(s) == rstrip(lstrip(s))

starts_with(s, p) == Len(p) <= Len(s) /\ SubSeq(s, 1, Len(p)) = p

\* p in s
contains(s, p) ==
    \E i \in 0..(Len(s) - Len(p)) : SubSeq(s, i + 1, i + Len(p)) = p

\* s.replace(p, ""): every occurrence of p, left to right, is removed
RECURSIVE remove_all(_, _)
remove_all(s, p) ==
    IF s = <<>> THEN <<>>
    ELSE IF starts_with(s, p) THEN remove_all(SubSeq(s, Len(p) + 1, Len(s)), p)
    ELSE <<Head(s)>> \o remove_all(Tail(s), p)

is_digit(c) == \E i \in 1..Len(Digits) : Digits[i] = c
digit_val(c) == (CHOOSE i \in 1..Len(Digits) : Digits[i] = c) - 1

all_digits(s) == \A i \in 1..Len(s) : is_digit(s[i])

RECURSIVE int_of(_)
int_of(s) == IF s = <<>> THEN 0
             ELSE 10 * int_of(SubSeq(s, 1, Len(s) - 1)) + digit_val(s[Len(s)])

\* A number typed by the user is held in tenths: the float x is x * 10.
\* The unsigned numeral forms float() accepts that the model covers:
\* digits, digits "." and digits "." digit.
unsigned_float(s) ==
    LET dot == IF contains(s, <<".">>)
               THEN CHOOSE i \in 1..Len(s) : s[i] = "."
                        /\ \A j \in 1..(i - 1) : s[j] # "."
               ELSE Len(s) + 1
        ip == SubSeq(s, 1, dot - 1)
        fp == SubSeq(s, dot + 1, Len(s))
    IN  IF ip # <<>> /\ all_digits(ip) /\ all_digits(fp) /\ Len(fp) <= 1
        THEN Some(int_of(ip) * 10 + int_of(fp))
        ELSE None

\* float(s): surrounding blanks are ignored, an optional sign, then the
\* numeral; None here is Python's ValueError.
to_float(text) ==
    LET s == strip(text)
        neg == s # <<>> /\ Head(s) = "-"
        signed == s # <<>> /\ Head(s) \in {"-", "+"}
        u == unsigned_float(IF signed THEN Tail(s) ELSE s)
    IN  IF u = None THEN None
        ELSE IF neg THEN Some(0 - u[1]) ELSE u

\* A weight in kilograms w is held as w * 10^7, so that a tenth of a kilogram
\* is KgTenth units and a tenth of a pound, 0.1 * 0.453592 kg, is LbTenth units.
KgTenth == 1000000
LbTenth == 453592

\* Python truthiness of an Optional[float]: None and 0.0 are both false.
truthy(x) == x # None /\ x[1] # 0

-----------------------------------------------------------------------------
(* PR tracker *)

\* parse_weight: the weight in kilograms, or None
parse_weight(weight_str) ==
    IF weight_str = <<>> THEN None
    ELSE LET s == strip(lower(weight_str))
             kg == to_float(strip(remove_all(s, <<"k","g">>)))
             lb == to_float(strip(remove_all(remove_all(s, <<"l","b","s">>), <<"l","b">>)))
             bare == to_float(s)
         IN  IF contains(s, <<"k","g">>)
             THEN IF kg = None THEN None ELSE Some(kg[1] * KgTenth)
             ELSE IF contains(s, <<"l","b">>)
             THEN IF lb = None THEN None ELSE Some(lb[1] * LbTenth)
             ELSE IF bare = None THEN None ELSE Some(bare[1] * KgTenth)

\* a history that counts the lifts of the running session as well
with_session_workouts(workouts, exercise) ==
    SelectSeq(workouts \o session.session_workouts,
              LAMBDA w : lower(w.exercise) = lower(exercise))

\* [w for w in workouts if w["exercise"].lower() == exercise.lower()]
exercise_workouts(workouts, exercise) ==
    SelectSeq(workouts, LAMBDA w : lower(w.exercise) = lower(exercise))

\* a scan in which a tie replaces the best so far
better_or_equal(weight, best_weight) == truthy(weight) /\ weight[1] >= best_weight

\* if weight and weight > best_weight
better(weight, best_weight) == truthy(weight) /\ weight[1] > best_weight

\* the loop of get_pr_for_exercise over ws, from (best, best_weight)
RECURSIVE best_of(_, _, _)
best_of(ws, best, best_weight) ==
    IF ws = <<>> THEN best
    ELSE LET w == Head(ws)
             weight == parse_weight(w.weight)
         IN  IF better(weight, best_weight)
             THEN best_of(Tail(ws), Some(w), weight[1])
             ELSE best_of(Tail(ws), best, best_weight)

\* get_pr_for_exercise: the stored entry holding the record, or None
get_pr_for_exercise(exercise) ==
    LET ws == exercise_workouts(load_data(WORKOUT_FILE), exercise)
    IN  IF ws = <<>> THEN None ELSE best_of(ws, None, 0)

\* check_pr: <<is_pr, old_pr_weight>>
check_pr(exercise, new_weight) ==
    LET new_weight_val == parse_weight(new_weight)
        old_pr == get_pr_for_exercise(exercise)
        old_weight == parse_weight(old_pr[1].weight)
    IN  IF ~truthy(new_weight_val) THEN <<FALSE, None>>
        ELSE IF old_pr = None THEN <<TRUE, None>>
        ELSE IF truthy(old_weight) /\ new_weight_val[1] > old_weight[1]
             THEN <<TRUE, Some(old_pr[1].weight)>>
        ELSE <<FALSE, None>>

\* check_pr reads the store only when the new weight is truthy
check_pr_raises(new_weight) ==
    truthy(parse_weight(new_weight)) /\ load_raises(WORKOUT_FILE)

-----------------------------------------------------------------------------
(* State shapes *)

\* "%Y-%m-%d %H:%M" is a day and a minute of that day; [:10] keeps the day.
Stamp(day, hm) == [day |-> day, hm |-> hm]
date_part(date) == date.day

Workout(date, body_part, exercise, sets, reps, weight, muscles) ==
    [date |-> date, body_part |-> body_part, exercise |-> exercise,
     sets |-> sets, reps |-> reps, weight |-> weight, notes |-> <<>>,
     session_muscles |-> muscles]

NoSession ==
    [muscles |-> <<>>, session_workouts |-> <<>>, seconds |-> 0,
     remaining |-> 0, slept |-> 0]
NoMeal == [custom_foods |-> <<>>, new_custom_foods |-> <<>>, meals_today |-> <<>>]
NoOutput == [op |-> "none"]

\* the sequences over S of length at most n
SeqUpTo(S, n) == UNION {[1..k -> S] : k \in 0..n}

-----------------------------------------------------------------------------
(* The PR tracker applied to stored histories *)

MaxHistory == 2

WeightTexts ==
    {<<>>, <<"b","w">>, <<"0","k","g">>, <<"-","5","k","g">>, <<"5","k","g">>, <<"5">>, <<"1","1"," ","l","b","s">>, <<"6","K","G">>}
StoredNames == {<<"S","q","u","a","t">>, <<"D","e","a","d","l","i","f","t">>}
AskedNames == {<<"s","q","u","a","t">>, <<"D","e","a","d","l","i","f","t">>}

PrEntries ==
    {Workout(Stamp(0, 0), "legs", e, 3, 10, w, <<"legs">>) :
        e \in StoredNames, w \in WeightTexts}

InitPR ==
    /\ now = Stamp(0, 0)
    /\ \E h \in SeqUpTo(PrEntries, MaxHistory) :
          fs = [p \in Paths |-> IF p = WORKOUT_FILE THEN Stored(h) ELSE Missing]
    /\ pc = "menu"
    /\ fault = "none"
    /\ session = NoSession
    /\ meal = NoMeal
    /\ out = NoOutput

\* check_pr(exercise, new_weight) on the store as it is
CheckPr ==
    \E e \in AskedNames, w \in WeightTexts :
        /\ ~check_pr_raises(w)
        /\ out' = [op |-> "check_pr", exercise |-> e, new_weight |-> w,
                   result |-> check_pr(e, w)]
        /\ UNCHANGED <<now, fs, pc, fault, session, meal>>

SpecPR == InitPR /\ [][CheckPr]_vars

\* The stored entries of the exercise asked about that carry a parseable weight
\* (positions in the store), and the heaviest of their weights in kilograms.
History == load_data(WORKOUT_FILE)
Parseable(exercise) ==
    {i \in 1..Len(History) :
        /\ lower(History[i].exercise) = lower(exercise)
        /\ parse_weight(History[i].weight) # None}
Kg(i) == parse_weight(History[i].weight)[1]
PriorBest(exercise) ==
    CHOOSE m \in {Kg(i) : i \in Parseable(exercise)} :
        \A i \in Parseable(exercise) : Kg(i) <= m

\* C1: when the history of the exercise holds a parseable weight, check_pr
\* reports a record exactly when the new weight in kilograms is strictly
\* above the heaviest stored weight, and otherwise returns (false, none).
C1_RecordIffAbovePriorBest ==
    (out.op = "check_pr" /\ Parseable(out.exercise) # {}
        /\ parse_weight(out.new_weight) # None)
    => /\ out.result[1] <=>
            parse_weight(out.new_weight)[1] > PriorBest(out.exercise)
       /\ ~out.result[1] => out.result = <<FALSE, None>>

\* C2: with no parseable stored weight for the exercise, every new weight
\* text that parses to a number, zero included, gives (true, none).
C2_FirstLiftIsRecord ==
    (out.op = "check_pr" /\ Parseable(out.exercise) = {}
        /\ parse_weight(out.new_weight) # None)
    => out.result = <<TRUE, None>>

-----------------------------------------------------------------------------
(* Streak *)

\* sorted(S, reverse=True) for a set of days
RECURSIVE sorted_desc(_)
sorted_desc(S) ==
    IF S = {} THEN <<>>
    ELSE LET m == CHOOSE x \in S : \A y \in S : y <= x
         IN  <<m>> \o sorted_desc(S \ {m})

\* a run that tolerates gaps
gap_at_least_one(current, prev) == current - prev >= 1

\* (current - prev).days == 1
consecutive(current, prev) == current - prev = 1

\* the for loop of calculate_streak from index i (0-based) with the count so far
RECURSIVE count_run(_, _, _)
count_run(dates, i, streak) ==
    IF i >= Len(dates) - 1 THEN streak
    ELSE IF consecutive(dates[i + 1], dates[i + 2])
         THEN count_run(dates, i + 1, streak + 1)
         ELSE streak

calculate_streak(workouts) ==
    LET dates == sorted_desc({date_part(workouts[i].date) : i \in 1..Len(workouts)})
        today == date_part(now)
        yesterday == date_part(now) - 1
    IN  IF workouts = <<>> THEN 0
        ELSE IF dates = <<>> THEN 0
        ELSE IF dates[1] # today /\ dates[1] # yesterday THEN 0
        ELSE count_run(dates, 0, 1)

\* An unhandled exception ends the process.
Crashed(error) ==
    /\ pc' = "crashed"
    /\ fault' = error
    /\ session' = NoSession
    /\ meal' = NoMeal
    /\ out' = NoOutput
    /\ UNCHANGED <<now, fs>>

\* main, choice "8": the streak is shown and the loop ends
ExitMenu ==
    /\ pc = "menu"
    /\ IF load_raises(WORKOUT_FILE) THEN Crashed("JSONDecodeError")
       ELSE /\ pc' = "exited"
            /\ out' = [op |-> "exit",
                       streak |-> calculate_streak(load_data(WORKOUT_FILE))]
            /\ UNCHANGED <<now, fs, fault, session, meal>>

MaxStreakDay == 4
MaxStreakEntries == 4

StreakEntries ==
    {Workout(Stamp(d, 0), "legs", <<"S","q","u","a","t">>, 3, 10, <<>>, <<"legs">>) :
        d \in 0..MaxStreakDay}

InitStreak ==
    /\ \E d \in 0..MaxStreakDay : now = Stamp(d, 0)
    /\ \E h \in SeqUpTo(StreakEntries, MaxStreakEntries) :
          fs = [p \in Paths |-> IF p = WORKOUT_FILE THEN Stored(h) ELSE Missing]
    /\ pc = "menu"
    /\ fault = "none"
    /\ session = NoSession
    /\ meal = NoMeal
    /\ out = NoOutput

SpecStreak == InitStreak /\ [][ExitMenu]_vars

WorkoutDays == {date_part(History[i].date) : i \in 1..Len(History)}
MostRecent == CHOOSE d \in WorkoutDays : \A e \in WorkoutDays : e <= d
\* the number of consecutive days with a workout that end at the most recent one
RunLength ==
    CHOOSE k \in 1..Cardinality(WorkoutDays) :
        /\ \A j \in 0..(k - 1) : (MostRecent - j) \in WorkoutDays
        /\ (MostRecent - k) \notin WorkoutDays

\* C3: the streak is 0 when the most recent workout day is neither today nor
\* yesterday, and otherwise the length (at least 1) of the run of consecutive
\* days ending at the most recent day, whatever the order and the number of
\* entries per day.
C3_StreakIsRunEndingAtMostRecent ==
    (out.op = "exit" /\ WorkoutDays # {})
    => IF MostRecent \notin {date_part(now), date_part(now) - 1}
       THEN out.streak = 0
       ELSE out.streak = RunLength /\ out.streak >= 1

\* C3 witness: a streak of three days read from a store that holds two
\* entries of one day and is not in date order.
C3_Witness ==
    /\ out.op = "exit" /\ out.streak = 3
    /\ \E i, j \in 1..Len(History) : i < j /\ History[i].date = History[j].date
    /\ \E i \in 1..(Len(History) - 1) :
          date_part(History[i].date) < date_part(History[i + 1].date)
    /\ \E i \in 1..(Len(History) - 1) :
          date_part(History[i].date) > date_part(History[i + 1].date)

-----------------------------------------------------------------------------
(* Weekly summary *)

\* A dict: its <<key, value>> pairs in insertion order.
dict_has(d, k) == \E i \in 1..Len(d) : d[i][1] = k
dict_get(d, k) == d[CHOOSE i \in 1..Len(d) : d[i][1] = k][2]
dict_keys(d) == [i \in 1..Len(d) |-> d[i][1]]
dict_put(d, k, v) ==
    IF dict_has(d, k)
    THEN [i \in 1..Len(d) |-> IF d[i][1] = k THEN <<k, v>> ELSE d[i]]
    ELSE Append(d, <<k, v>>)

\* counts[k] = counts.get(k, 0) + 1 for every k of ks, in order
RECURSIVE count_keys(_, _)
count_keys(ks, counts) ==
    IF ks = <<>> THEN counts
    ELSE LET k == Head(ks)
             n == IF dict_has(counts, k) THEN dict_get(counts, k) ELSE 0
         IN  count_keys(Tail(ks), dict_put(counts, k, n + 1))

\* sorted(counts.items(), key=lambda x: -x[1]): descending count, and equal
\* counts stay in insertion order (the sort is stable)
RECURSIVE sorted_by_count(_)
sorted_by_count(items) ==
    IF items = <<>> THEN <<>>
    ELSE LET front == sorted_by_count(SubSeq(items, 1, Len(items) - 1))
             x == items[Len(items)]
             keep == SelectSeq(front, LAMBDA y : y[2] >= x[2])
             rest == SelectSeq(front, LAMBDA y : y[2] < x[2])
         IN  keep \o <<x>> \o rest

RECURSIVE sum_calories(_)
sum_calories(ms) ==
    IF ms = <<>> THEN 0 ELSE Head(ms).calories + sum_calories(Tail(ms))

\* timedelta(days=7)
WeekWindow == 7

\* a window that leaves out the day a week ago
after_week_ago(date, week_ago) == date > week_ago

\* the filter of the summary: date >= week_ago_str
in_week(date, week_ago) == date >= week_ago

\* an average per meal instead of per day
meal_count(week_meals) == Len(week_meals)

\* len(set(m["date"] for m in week_meals))
days_with_meals_of(week_meals) ==
    Cardinality({week_meals[i].date : i \in 1..Len(week_meals)})

\* a / b of two ints, held exactly as the fraction it is
true_div(a, b) == [num |-> a, den |-> b]

\* f"{x:.0f}": the nearest integer, a tie going to the even one
round_half_even(x) ==
    LET q == x.num \div x.den
        r == x.num % x.den
    IN  IF 2 * r < x.den THEN q
        ELSE IF 2 * r > x.den THEN q + 1
        ELSE IF q % 2 = 0 THEN q ELSE q + 1

workout_stats(workouts, week_workouts) ==
    [sessions |-> Cardinality({date_part(week_workouts[i].date) :
                                  i \in 1..Len(week_workouts)}),
     total_exercises |-> Len(week_workouts),
     by_body_part |->
        sorted_by_count(count_keys(
            [i \in 1..Len(week_workouts) |-> week_workouts[i].body_part], <<>>)),
     streak |-> calculate_streak(workouts)]

nutrition_stats(week_meals) ==
    LET total_calories == sum_calories(week_meals)
        days_with_meals == days_with_meals_of(week_meals)
        avg_daily == IF days_with_meals > 0
                     THEN true_div(total_calories, days_with_meals)
                     ELSE true_div(0, 1)
    IN  [total_calories |-> total_calories,
         days_logged |-> days_with_meals,
         avg_daily |-> avg_daily,
         daily_average |-> round_half_even(avg_daily),
         top_foods |->
            LET ranked == sorted_by_count(count_keys(
                    [i \in 1..Len(week_meals) |-> week_meals[i].food], <<>>))
            IN  SubSeq(ranked, 1, IF Len(ranked) < 3 THEN Len(ranked) ELSE 3)]

\* a summary that keeps the day of the summary before it and moves on from it
day_after_last_summary ==
    IF out.op = "weekly" THEN out.today + 1 ELSE date_part(now)

\* today = datetime.now(), read anew by every summary
summary_day == date_part(now)

\* what view_weekly_summary prints; a section without entries prints only
\* "No workouts this week" / "No meals logged this week" (None here)
weekly_summary ==
    LET today == summary_day
        week_ago == today - WeekWindow
        workouts == load_data(WORKOUT_FILE)
        week_workouts ==
            SelectSeq(workouts, LAMBDA w : in_week(date_part(w.date), week_ago))
        meals == load_data(MEALS_FILE)
        week_meals == SelectSeq(meals, LAMBDA m : in_week(m.date, week_ago))
    IN  [op |-> "weekly", week_ago |-> week_ago, today |-> today,
         week_workouts |-> week_workouts, week_meals |-> week_meals,
         workouts |-> IF week_workouts # <<>>
                      THEN Some(workout_stats(workouts, week_workouts))
                      ELSE None,
         nutrition |-> IF week_meals # <<>>
                       THEN Some(nutrition_stats(week_meals))
                       ELSE None]

\* main, choice "6"
ViewWeeklySummary ==
    /\ pc = "menu"
    /\ IF load_raises(WORKOUT_FILE) \/ load_raises(MEALS_FILE)
       THEN Crashed("JSONDecodeError")
       ELSE /\ out' = weekly_summary
            /\ UNCHANGED <<now, fs, pc, fault, session, meal>>

Meal(date, time, food, grams, calories) ==
    [date |-> date, time |-> time, food |-> food, grams |-> grams,
     calories |-> calories]

\* The wall clock is an input: datetime.now() is the local time of the
\* machine, which moves on between two operations and which may also be set
\* back (a correction of the clock, another time zone).
ClockSet(days) ==
    /\ pc = "menu"
    /\ \E d \in days : d # date_part(now) /\ now' = Stamp(d, 0)
    /\ UNCHANGED <<fs, pc, fault, session, meal, out>>

\* The summary is read on days around EvalDay over stores whose entries were
\* logged on days at the edges of the week before it.
EvalDay == 9
MaxWeekWorkouts == 1
MaxWeekMeals == 3

SummaryDays ==
    {EvalDay - WeekWindow - 1, EvalDay - WeekWindow, EvalDay - 1, EvalDay,
     EvalDay + 1}

WeekWorkouts(today) ==
    {Workout(Stamp(d, 0), "legs", <<"S","q","u","a","t">>, 3, 10, <<>>, <<"legs">>) :
        d \in {x \in SummaryDays : x <= today}}
\* 280 g of beef (250 cal per 100 g) are 700 cal
WeekMeals(today) ==
    {Meal(d, 0, <<"b","e","e","f">>, 2800, 700) : d \in {x \in SummaryDays : x <= today}}

\* Every stored entry was stamped with the clock of its logging, so none is
\* dated after the clock of the initial state.
InitWeekly ==
    /\ \E d \in SummaryDays :
          /\ now = Stamp(d, 0)
          /\ \E ws \in SeqUpTo(WeekWorkouts(d), MaxWeekWorkouts),
                ms \in SeqUpTo(WeekMeals(d), MaxWeekMeals) :
                fs = [p \in Paths |->
                        IF p = WORKOUT_FILE THEN Stored(ws)
                        ELSE IF p = MEALS_FILE THEN Stored(ms)
                        ELSE Missing]
    /\ pc = "menu"
    /\ fault = "none"
    /\ session = NoSession
    /\ meal = NoMeal
    /\ out = NoOutput

WeeklyClock == ClockSet(SummaryDays)

SpecWeekly == InitWeekly /\ [][ViewWeeklySummary \/ WeeklyClock]_vars

MealLog == load_data(MEALS_FILE)
\* the day on which the summary on screen was made
Today == out.today
SummaryHasWorkout(i) ==
    \E k \in 1..Len(out.week_workouts) : out.week_workouts[k] = History[i]
SummaryHasMeal(i) ==
    \E k \in 1..Len(out.week_meals) : out.week_meals[k] = MealLog[i]

RECURSIVE SumOver(_, _)
SumOver(S, f) ==
    IF S = {} THEN 0
    ELSE LET i == CHOOSE x \in S : TRUE IN f[i] + SumOver(S \ {i}, f)

CaloriesOf(S) == SumOver(S, [i \in 1..Len(MealLog) |-> MealLog[i].calories])
DaysOf(S) == Cardinality({MealLog[i].date : i \in S})
MealsInClosedWindow ==
    {i \in 1..Len(MealLog) :
        Today - 7 <= MealLog[i].date /\ MealLog[i].date <= Today}
MealsNotBeforeWeekAgo == {i \in 1..Len(MealLog) : Today - 7 <= MealLog[i].date}

\* C7 as claimed: the reported daily average is the calories of the meals in
\* the window divided by the number of distinct days with a meal in the
\* window, and it is reported as 0 when the window holds no meal.
C7_AverageOverWindowOrZero ==
    out.op = "weekly"
    => /\ out.nutrition # None
       /\ IF MealsInClosedWindow = {}
          THEN out.nutrition[1].avg_daily.num = 0
          ELSE out.nutrition[1].avg_daily.num * DaysOf(MealsInClosedWindow)
                 = CaloriesOf(MealsInClosedWindow) * out.nutrition[1].avg_daily.den

\* C7 amended: over the meals the summary includes (dated today - 7 or
\* later) the reported daily average is their calories divided by the number
\* of distinct days among them; when it includes no meal no average is
\* reported at all, and nothing is divided.
C7_AverageOverIncludedMeals ==
    out.op = "weekly"
    => IF MealsNotBeforeWeekAgo = {}
       THEN out.nutrition = None
       ELSE /\ out.nutrition # None
            /\ out.nutrition[1].avg_daily.den > 0
            /\ out.nutrition[1].avg_daily.num * DaysOf(MealsNotBeforeWeekAgo)
                 = CaloriesOf(MealsNotBeforeWeekAgo)
                    * out.nutrition[1].avg_daily.den
            /\ out.nutrition[1].days_logged = DaysOf(MealsNotBeforeWeekAgo)

\* C7 witness: 2100 calories over 3 distinct days reported as 700 a day.
C7_Witness ==
    /\ out.op = "weekly" /\ out.nutrition # None
    /\ out.nutrition[1].total_calories = 2100
    /\ out.nutrition[1].days_logged = 3
    /\ out.nutrition[1].daily_average = 700

-----------------------------------------------------------------------------
(* Progress view *)

\* The characters of the model in code point order, for comparing texts.
CodeOrder == <<" ", "+", "-", ".">> \o Digits \o Upper \o Lower
ord(c) == CHOOSE i \in 1..Len(CodeOrder) : CodeOrder[i] = c

\* a < b for two texts, as Python compares strings
RECURSIVE text_less(_, _)
text_less(a, b) ==
    IF b = <<>> THEN FALSE
    ELSE IF a = <<>> THEN TRUE
    ELSE IF Head(a) # Head(b) THEN ord(Head(a)) < ord(Head(b))
    ELSE text_less(Tail(a), Tail(b))

\* sorted(d.items()): by key
RECURSIVE sorted_by_key(_)
sorted_by_key(items) ==
    IF items = <<>> THEN <<>>
    ELSE LET front == sorted_by_key(SubSeq(items, 1, Len(items) - 1))
             x == items[Len(items)]
             keep == SelectSeq(front, LAMBDA y : ~text_less(x[1], y[1]))
             rest == SelectSeq(front, LAMBDA y : text_less(x[1], y[1]))
         IN  keep \o <<x>> \o rest

\* "%Y-%m-%d %H:%M" strings compare as (day, minute)
date_le(a, b) == a.day < b.day \/ (a.day = b.day /\ a.hm <= b.hm)

\* sorted(records, key=lambda x: x["date"]): stable
RECURSIVE sorted_by_date(_)
sorted_by_date(records) ==
    IF records = <<>> THEN <<>>
    ELSE LET front == sorted_by_date(SubSeq(records, 1, Len(records) - 1))
             x == records[Len(records)]
             keep == SelectSeq(front, LAMBDA y : date_le(y.date, x.date))
             rest == SelectSeq(front, LAMBDA y : ~date_le(y.date, x.date))
         IN  keep \o <<x>> \o rest

\* s[-n:]
last_n(s, n) == IF Len(s) <= n THEN s ELSE SubSeq(s, Len(s) - n + 1, Len(s))

\* the loop of view_progress that groups the weighted entries by exercise
RECURSIVE exercises_with_weights(_, _)
exercises_with_weights(workouts, d) ==
    IF workouts = <<>> THEN d
    ELSE LET w == Head(workouts)
             weight == parse_weight(w.weight)
             record == [weight |-> weight[1], date |-> w.date,
                        sets |-> w.sets, reps |-> w.reps]
             sofar == IF dict_has(d, w.exercise) THEN dict_get(d, w.exercise)
                      ELSE <<>>
         IN  IF truthy(weight)
             THEN exercises_with_weights(Tail(workouts),
                      dict_put(d, w.exercise, Append(sofar, record)))
             ELSE exercises_with_weights(Tail(workouts), d)

\* max(records, key=lambda x: x["weight"]): the first of the heaviest
max_by_weight(records) ==
    records[CHOOSE i \in 1..Len(records) :
        /\ \A j \in 1..Len(records) : records[j].weight <= records[i].weight
        /\ \A j \in 1..(i - 1) : records[j].weight < records[i].weight]

min_weight(records) ==
    CHOOSE m \in {records[i].weight : i \in 1..Len(records)} :
        \A i \in 1..Len(records) : m <= records[i].weight
max_weight(records) ==
    CHOOSE m \in {records[i].weight : i \in 1..Len(records)} :
        \A i \in 1..Len(records) : records[i].weight <= m

\* sorted_records[-10:] and chart_height = 8
ChartPoints == 10
ChartHeight == 8

\* the first of the displayed points
first_of_recent(sorted_records) == last_n(sorted_records, ChartPoints)[1].weight

\* first_weight = sorted_records[0]["weight"]
first_of_series(sorted_records) == sorted_records[1].weight

\* show_progress_chart.  Row r (ChartHeight - 1 down to 0) marks the points
\* of recent with weight >= min_w + weight_range * r / (chart_height - 1).
show_progress_chart(exercise, records) ==
    LET sorted_records == sorted_by_date(records)
        min_w == min_weight(sorted_records)
        max_w == max_weight(sorted_records)
        weight_range == IF max_w # min_w THEN max_w - min_w ELSE 10 * KgTenth
        recent == last_n(sorted_records, ChartPoints)
        first_weight == first_of_series(sorted_records)
        last_weight == sorted_records[Len(sorted_records)].weight
        diff == last_weight - first_weight
    IN  IF Len(sorted_records) < 2
        THEN [status |-> "need 2 records", exercise |-> exercise]
        ELSE [status |-> "chart", exercise |-> exercise,
              min_w |-> min_w, max_w |-> max_w, recent |-> recent,
              rows |-> [k \in 1..ChartHeight |->
                          [i \in 1..Len(recent) |->
                              recent[i].weight * (ChartHeight - 1) >=
                                  min_w * (ChartHeight - 1)
                                    + weight_range * (ChartHeight - k)]],
              first_weight |-> first_weight, last_weight |-> last_weight,
              diff |-> diff, sign |-> IF diff >= 0 THEN "+" ELSE ""]

\* view_progress with the typed choice (None: not a number)
view_progress(choice) ==
    LET workouts == load_data(WORKOUT_FILE)
        by_exercise == exercises_with_weights(workouts, <<>>)
        ranked == sorted_by_key(by_exercise)
        exercises == dict_keys(by_exercise)
    IN  IF workouts = <<>>
        THEN [op |-> "progress", status |-> "no workouts"]
        ELSE IF by_exercise = <<>>
        THEN [op |-> "progress", status |-> "no weighted exercises"]
        ELSE [op |-> "progress", status |-> "records",
              prs |-> [i \in 1..Len(ranked) |->
                         <<ranked[i][1], max_by_weight(ranked[i][2])>>],
              chart |-> IF choice # None /\ 1 <= choice[1]
                            /\ choice[1] <= Len(exercises)
                        THEN Some(show_progress_chart(exercises[choice[1]],
                                 dict_get(by_exercise, exercises[choice[1]])))
                        ELSE None]

\* main, choice "5"
ViewProgress(choices) ==
    /\ pc = "menu"
    /\ IF load_raises(WORKOUT_FILE) THEN Crashed("JSONDecodeError")
       ELSE /\ \E choice \in choices : out' = view_progress(choice)
            /\ UNCHANGED <<now, fs, pc, fault, session, meal>>

\* Stores of one exercise logged once a day, in the order of the days or,
\* the clock having been set back, against it.
MaxPoints == 11
ChartWeights == {<<"5","k","g">>, <<"6","K","G">>}
ChartChoices == {None, Some(1), Some(2)}

ChartStore(n, ws, up) ==
    [i \in 1..n |->
        Workout(Stamp(IF up THEN i ELSE n + 1 - i, 0), "legs", <<"S","q","u","a","t">>,
                3, 10, ws[i], <<"legs">>)]

InitChart ==
    /\ now = Stamp(MaxPoints + 1, 0)
    /\ \E n \in 0..MaxPoints :
          \E ws \in [1..n -> ChartWeights], up \in BOOLEAN :
             fs = [p \in Paths |->
                     IF p = WORKOUT_FILE THEN Stored(ChartStore(n, ws, up))
                     ELSE Missing]
    /\ pc = "menu"
    /\ fault = "none"
    /\ session = NoSession
    /\ meal = NoMeal
    /\ out = NoOutput

ChartView == ViewProgress(ChartChoices)

SpecChart == InitChart /\ [][ChartView]_vars

HasChart ==
    /\ out.op = "progress" /\ out.status = "records"
    /\ out.chart # None /\ out.chart[1].status = "chart"
Shown == out.chart[1].recent
\* the position in the store of the oldest entry of the charted exercise
\* that carries a weight
OldestOfSeries ==
    CHOOSE i \in 1..Len(History) :
        /\ History[i].exercise = out.chart[1].exercise
        /\ truthy(parse_weight(History[i].weight))
        /\ \A j \in 1..Len(History) :
              (History[j].exercise = out.chart[1].exercise
                  /\ truthy(parse_weight(History[j].weight)))
              => date_le(History[i].date, History[j].date)

\* C8 as claimed: the summary line reports the first and the last of the at
\* most 10 displayed points and their signed difference.
C8_SummaryOfDisplayedPoints ==
    HasChart
    => /\ out.chart[1].first_weight = Shown[1].weight
       /\ out.chart[1].last_weight = Shown[Len(Shown)].weight
       /\ out.chart[1].diff = Shown[Len(Shown)].weight - Shown[1].weight

\* C8 amended: the summary line reports the oldest point of the whole series
\* (also when it is not among the at most 10 displayed points) and the last
\* displayed point, which is the newest of the series, and their signed
\* difference.
C8_SummaryOfWholeSeries ==
    HasChart
    => /\ Len(Shown) <= ChartPoints
       /\ out.chart[1].first_weight = Kg(OldestOfSeries)
       /\ out.chart[1].last_weight = Shown[Len(Shown)].weight
       /\ out.chart[1].diff = Shown[Len(Shown)].weight - Kg(OldestOfSeries)

\* C8 witness: a chart of a series of more than 10 points whose oldest point
\* differs from the oldest displayed one.
C8_Witness ==
    /\ HasChart
    /\ Len(History) > ChartPoints
    /\ Len(Shown) = ChartPoints
    /\ Shown[1].weight # Kg(OldestOfSeries)
    /\ out.chart[1].first_weight = Kg(OldestOfSeries)

-----------------------------------------------------------------------------
(* Catalogs *)

\* BODY_PARTS: body part -> suggested exercises
BODY_PARTS ==
    <<
       <<"chest", <<<<"B","e","n","c","h"," ","P","r","e","s","s">>, <<"P","u","s","h","-","u","p","s">>, <<"D","u","m","b","b","e","l","l"," ","F","l","y">>, <<"I","n","c","l","i","n","e"," ","P","r","e","s","s">>, <<"C","a","b","l","e"," ","C","r","o","s","s","o","v","e","r">>>>>>,
       <<"back", <<<<"P","u","l","l","-","u","p","s">>, <<"D","e","a","d","l","i","f","t">>, <<"B","a","r","b","e","l","l"," ","R","o","w">>, <<"L","a","t"," ","P","u","l","l","d","o","w","n">>, <<"S","e","a","t","e","d"," ","R","o","w">>>>>>,
       <<"shoulders", <<<<"O","v","e","r","h","e","a","d"," ","P","r","e","s","s">>, <<"L","a","t","e","r","a","l"," ","R","a","i","s","e">>, <<"F","r","o","n","t"," ","R","a","i","s","e">>, <<"F","a","c","e"," ","P","u","l","l">>, <<"S","h","r","u","g","s">>>>>>,
       <<"arms", <<<<"B","i","c","e","p"," ","C","u","r","l">>, <<"T","r","i","c","e","p"," ","D","i","p">>, <<"H","a","m","m","e","r"," ","C","u","r","l">>, <<"S","k","u","l","l"," ","C","r","u","s","h","e","r">>, <<"C","a","b","l","e"," ","P","u","s","h","d","o","w","n">>>>>>,
       <<"core", <<<<"P","l","a","n","k">>, <<"C","r","u","n","c","h","e","s">>, <<"L","e","g"," ","R","a","i","s","e">>, <<"R","u","s","s","i","a","n"," ","T","w","i","s","t">>, <<"M","o","u","n","t","a","i","n"," ","C","l","i","m","b","e","r","s">>>>>>,
       <<"legs", <<<<"S","q","u","a","t">>, <<"L","u","n","g","e","s">>, <<"L","e","g"," ","P","r","e","s","s">>, <<"C","a","l","f"," ","R","a","i","s","e">>, <<"R","o","m","a","n","i","a","n"," ","D","e","a","d","l","i","f","t">>>>>>
    >>

\* WORD_TO_NUMBER
WORD_TO_NUMBER ==
    <<<<<<"z","e","r","o">>, 0>>, <<<<"o","n","e">>, 1>>, <<<<"t","w","o">>, 2>>,
      <<<<"t","h","r","e","e">>, 3>>, <<<<"f","o","u","r">>, 4>>, <<<<"f","i","v","e">>, 5>>,
      <<<<"s","i","x">>, 6>>, <<<<"s","e","v","e","n">>, 7>>, <<<<"e","i","g","h","t">>, 8>>,
      <<<<"n","i","n","e">>, 9>>, <<<<"t","e","n">>, 10>>, <<<<"e","l","e","v","e","n">>, 11>>,
      <<<<"t","w","e","l","v","e">>, 12>>, <<<<"t","h","i","r","t","e","e","n">>, 13>>,
      <<<<"f","o","u","r","t","e","e","n">>, 14>>, <<<<"f","i","f","t","e","e","n">>, 15>>,
      <<<<"s","i","x","t","e","e","n">>, 16>>, <<<<"s","e","v","e","n","t","e","e","n">>, 17>>,
      <<<<"e","i","g","h","t","e","e","n">>, 18>>, <<<<"n","i","n","e","t","e","e","n">>, 19>>,
      <<<<"t","w","e","n","t","y">>, 20>>>>

\* CALORIE_DATABASE: food -> calories per 100 g
CALORIE_DATABASE ==
    <<<<<<"c","h","i","c","k","e","n"," ","b","r","e","a","s","t">>, 165>>, <<<<"c","h","i","c","k","e","n"," ","t","h","i","g","h">>, 209>>,
      <<<<"b","e","e","f">>, 250>>, <<<<"g","r","o","u","n","d"," ","b","e","e","f">>, 332>>,
      <<<<"s","a","l","m","o","n">>, 208>>, <<<<"t","u","n","a">>, 132>>, <<<<"s","h","r","i","m","p">>, 99>>,
      <<<<"e","g","g","s">>, 155>>, <<<<"e","g","g"," ","w","h","i","t","e","s">>, 52>>, <<<<"t","o","f","u">>, 76>>,
      <<<<"t","u","r","k","e","y">>, 135>>, <<<<"p","o","r","k">>, 242>>, <<<<"r","i","c","e">>, 130>>,
      <<<<"b","r","o","w","n"," ","r","i","c","e">>, 123>>, <<<<"b","r","e","a","d">>, 265>>,
      <<<<"w","h","o","l","e"," ","w","h","e","a","t"," ","b","r","e","a","d">>, 247>>, <<<<"p","a","s","t","a">>, 131>>,
      <<<<"o","a","t","m","e","a","l">>, 68>>, <<<<"p","o","t","a","t","o">>, 77>>,
      <<<<"s","w","e","e","t"," ","p","o","t","a","t","o">>, 86>>, <<<<"q","u","i","n","o","a">>, 120>>,
      <<<<"b","r","o","c","c","o","l","i">>, 34>>, <<<<"s","p","i","n","a","c","h">>, 23>>,
      <<<<"c","a","r","r","o","t">>, 41>>, <<<<"t","o","m","a","t","o">>, 18>>, <<<<"c","u","c","u","m","b","e","r">>, 16>>,
      <<<<"b","e","l","l"," ","p","e","p","p","e","r">>, 31>>, <<<<"l","e","t","t","u","c","e">>, 15>>,
      <<<<"o","n","i","o","n">>, 40>>, <<<<"m","u","s","h","r","o","o","m">>, 22>>,
      <<<<"a","v","o","c","a","d","o">>, 160>>, <<<<"b","a","n","a","n","a">>, 89>>, <<<<"a","p","p","l","e">>, 52>>,
      <<<<"o","r","a","n","g","e">>, 47>>, <<<<"s","t","r","a","w","b","e","r","r","y">>, 32>>,
      <<<<"b","l","u","e","b","e","r","r","y">>, 57>>, <<<<"g","r","a","p","e","s">>, 69>>,
      <<<<"w","a","t","e","r","m","e","l","o","n">>, 30>>, <<<<"m","a","n","g","o">>, 60>>, <<<<"m","i","l","k">>, 42>>,
      <<<<"a","l","m","o","n","d"," ","m","i","l","k">>, 15>>, <<<<"y","o","g","u","r","t">>, 59>>,
      <<<<"g","r","e","e","k"," ","y","o","g","u","r","t">>, 97>>, <<<<"c","h","e","e","s","e">>, 402>>,
      <<<<"c","o","t","t","a","g","e"," ","c","h","e","e","s","e">>, 98>>, <<<<"p","r","o","t","e","i","n"," ","s","h","a","k","e">>, 120>>,
      <<<<"p","r","o","t","e","i","n"," ","b","a","r">>, 200>>, <<<<"a","l","m","o","n","d","s">>, 579>>,
      <<<<"p","e","a","n","u","t"," ","b","u","t","t","e","r">>, 588>>, <<<<"h","o","n","e","y">>, 304>>,
      <<<<"o","l","i","v","e"," ","o","i","l">>, 884>>>>

-----------------------------------------------------------------------------
(* Sessions *)

\* int(s): blanks around are ignored, an optional sign, then digits; None
\* here is Python's ValueError.
to_int(text) ==
    LET s == strip(text)
        signed == s # <<>> /\ Head(s) \in {"-", "+"}
        u == IF signed THEN Tail(s) ELSE s
    IN  IF u # <<>> /\ all_digits(u)
        THEN Some(IF Head(s) = "-" THEN 0 - int_of(u) ELSE int_of(u))
        ELSE None

parse_number(value) ==
    LET v == lower(strip(value))
        n == to_int(v)
    IN  IF n # None THEN n
        ELSE IF dict_has(WORD_TO_NUMBER, v) THEN Some(dict_get(WORD_TO_NUMBER, v))
        ELSE None

get_combo_suggestions(selected_part) ==
    SelectSeq(dict_keys(BODY_PARTS), LAMBDA part : part # selected_part)

\* select_workout_muscles with the two choices that end its two prompts (a
\* choice out of range or not a number is asked again)
select_workout_muscles(choice, combo_choice) ==
    LET parts == dict_keys(BODY_PARTS)
        selected == <<parts[choice]>>
        suggestions == get_combo_suggestions(selected[1])
    IN  IF choice = Len(parts) + 1 THEN <<>>
        ELSE IF combo_choice = Len(suggestions) + 1 THEN selected
        ELSE Append(selected, suggestions[combo_choice])

RECURSIVE get_exercises_for_muscles(_)
get_exercises_for_muscles(muscles) ==
    IF muscles = <<>> THEN <<>>
    ELSE LET muscle == Head(muscles)
             names == dict_get(BODY_PARTS, muscle)
         IN  [i \in 1..Len(names) |-> <<names[i], muscle>>]
                \o get_exercises_for_muscles(Tail(muscles))

\* An unhandled exception that ends the process after files were written.
CrashedAfter(files, error) ==
    /\ pc' = "crashed"
    /\ fault' = error
    /\ session' = NoSession
    /\ meal' = NoMeal
    /\ out' = NoOutput
    /\ fs' = files
    /\ UNCHANGED now

\* log_workout up to its loop: without muscles the workout is skipped
begin_session(muscles) ==
    IF muscles = <<>>
    THEN /\ out' = [op |-> "workout skipped"]
         /\ UNCHANGED <<now, fs, pc, fault, session, meal>>
    ELSE /\ pc' = "log_workout"
         /\ session' = [muscles |-> muscles, session_workouts |-> <<>>,
                        seconds |-> 0, remaining |-> 0, slept |-> 0]
         /\ out' = [op |-> "session", muscles |-> muscles,
                    available |-> get_exercises_for_muscles(muscles)]
         /\ UNCHANGED <<now, fs, fault, meal>>

\* main, choice "1"
StartSession(inputs) ==
    /\ pc = "menu"
    /\ \E c \in inputs : begin_session(select_workout_muscles(c[1], c[2]))

\* main, choice "2": use_template, then log_workout(template)
UseTemplate(choices) ==
    /\ pc = "menu"
    /\ IF load_raises(TEMPLATES_FILE) THEN Crashed("JSONDecodeError")
       ELSE LET templates == load_dict_data(TEMPLATES_FILE)
                template_names == dict_keys(templates)
            IN  IF templates = <<>>
                THEN /\ out' = [op |-> "no templates"]
                     /\ UNCHANGED <<now, fs, pc, fault, session, meal>>
                ELSE \E choice \in choices :
                        IF choice # None /\ 1 <= choice[1]
                            /\ choice[1] <= Len(template_names)
                        THEN begin_session(
                                dict_get(templates,
                                         template_names[choice[1]]).muscles)
                        ELSE /\ out' = [op |-> "no template"]
                             /\ UNCHANGED <<now, fs, pc, fault, session, meal>>

\* rest_timer(90) when the text is not a number
DefaultRest == 90

rest_seconds(rest) ==
    IF to_int(rest) # None THEN to_int(rest)[1] ELSE DefaultRest

\* a prompt that takes any number
any_number(n) == n # None

\* sets is not None and sets > 0
positive(n) == n # None /\ n[1] > 0

\* A prompt loop of collect_workout_details over the texts the user has
\* ready for it, in order: the first that is a positive number ends the
\* loop, the ones before it are asked again.  None: the prompt is still
\* waiting.
RECURSIVE ask_number(_)
ask_number(typed) ==
    IF typed = <<>> THEN None
    ELSE LET n == parse_number(strip(Head(typed)))
         IN  IF positive(n) THEN n ELSE ask_number(Tail(typed))

\* One round of the loop of log_workout: an exercise is chosen by number or
\* typed, its details are collected, it is compared to the record, joins
\* the session, and the rest prompt is answered.
LogExercise(choices, names, sets_inputs, reps_inputs, weights, rests) ==
    /\ pc = "log_workout"
    /\ \E choice \in choices, name \in names, sets_input \in sets_inputs,
          reps_input \in reps_inputs, weight_input \in weights,
          rest_input \in rests :
          LET available == get_exercises_for_muscles(session.muscles)
              custom == choice = Len(available) + 1
              exercise == IF custom THEN strip(name) ELSE available[choice][1]
              body_part == IF custom THEN session.muscles[1]
                           ELSE available[choice][2]
              sets == ask_number(sets_input)
              reps == ask_number(reps_input)
              weight == strip(weight_input)
              workout == Workout(now, body_part, exercise, sets[1], reps[1],
                                 weight, session.muscles)
              rest == lower(strip(rest_input))
              timed == rest # <<"n">> /\ rest # <<>>
          IN  /\ 1 <= choice /\ choice <= Len(available) + 1
              /\ sets # None
              /\ reps # None
              /\ IF check_pr_raises(weight) THEN Crashed("JSONDecodeError")
                 ELSE /\ session' =
                            [session EXCEPT
                                !.session_workouts = Append(@, workout),
                                !.seconds = IF timed THEN rest_seconds(rest)
                                            ELSE 0,
                                !.remaining = IF timed THEN rest_seconds(rest)
                                              ELSE 0,
                                !.slept = 0]
                      /\ pc' = IF timed THEN "rest_timer" ELSE "log_workout"
                      /\ out' = [op |-> "logged", workout |-> workout,
                                 pr |-> check_pr(exercise, weight)]
                      /\ UNCHANGED <<now, fs, fault, meal>>

\* a countdown that also waits at zero
through_zero(remaining) == remaining >= 0

\* for remaining in range(seconds, 0, -1)
timer_running(remaining) == remaining > 0

\* rest_timer: time.sleep(1) returns, a second of the countdown has passed
TimerTick ==
    /\ pc = "rest_timer"
    /\ timer_running(session.remaining)
    /\ session' = [session EXCEPT !.remaining = @ - 1, !.slept = @ + 1]
    /\ UNCHANGED <<now, fs, pc, fault, meal, out>>

\* rest_timer: the loop is over, "TIME'S UP" is printed and the session
\* goes on with the next exercise
TimerUp ==
    /\ pc = "rest_timer"
    /\ ~timer_running(session.remaining)
    /\ pc' = "log_workout"
    /\ session' = [session EXCEPT !.seconds = 0, !.remaining = 0, !.slept = 0]
    /\ out' = [op |-> "time is up", seconds |-> session.seconds,
               slept |-> session.slept]
    /\ UNCHANGED <<now, fs, fault, meal>>

\* rest_timer: Ctrl+C during time.sleep(1) raises KeyboardInterrupt, which
\* is caught; "Timer skipped" is printed and the session goes on
TimerSkip ==
    /\ pc = "rest_timer"
    /\ timer_running(session.remaining)
    /\ pc' = "log_workout"
    /\ session' = [session EXCEPT !.seconds = 0, !.remaining = 0, !.slept = 0]
    /\ out' = [op |-> "timer skipped", seconds |-> session.seconds,
               slept |-> session.slept]
    /\ UNCHANGED <<now, fs, fault, meal>>

\* a write that keeps only what was just logged
replaced_by(stored, logged) == logged

\* workouts.extend(session_workouts); meals.extend(meals_today)
extend(stored, logged) == stored \o logged

save_template(files, name, muscles, exercises) ==
    save_data(files, TEMPLATES_FILE,
              dict_put(load_dict_data(TEMPLATES_FILE), name,
                       [muscles |-> muscles, exercises |-> exercises,
                        created |-> date_part(now)]))

\* "Workout Done": the session is appended to the store and may be saved as
\* a template; the template store is read after the workouts are written.
WorkoutDone(answers, names) ==
    /\ pc = "log_workout"
    /\ IF session.session_workouts = <<>>
       THEN /\ pc' = "menu"
            /\ session' = NoSession
            /\ out' = [op |-> "session done", logged |-> 0]
            /\ UNCHANGED <<now, fs, fault, meal>>
       ELSE IF load_raises(WORKOUT_FILE) THEN Crashed("JSONDecodeError")
       ELSE \E save_as \in answers, name_input \in names :
               LET session_workouts == session.session_workouts
                   written == save_data(fs, WORKOUT_FILE,
                                  extend(load_data(WORKOUT_FILE),
                                         session_workouts))
                   name == strip(name_input)
                   exercises_for_template ==
                       [i \in 1..Len(session_workouts) |->
                           [exercise |-> session_workouts[i].exercise,
                            body_part |-> session_workouts[i].body_part]]
               IN  IF lower(save_as) = <<"y">> /\ name # <<>>
                   THEN IF load_raises(TEMPLATES_FILE)
                        THEN CrashedAfter(written, "JSONDecodeError")
                        ELSE /\ fs' = save_template(written, name,
                                          session.muscles,
                                          exercises_for_template)
                             /\ pc' = "menu"
                             /\ session' = NoSession
                             /\ out' = [op |-> "session done",
                                        logged |-> Len(session_workouts)]
                             /\ UNCHANGED <<now, fault, meal>>
                   ELSE /\ fs' = written
                        /\ pc' = "menu"
                        /\ session' = NoSession
                        /\ out' = [op |-> "session done",
                                   logged |-> Len(session_workouts)]
                        /\ UNCHANGED <<now, fault, meal>>

-----------------------------------------------------------------------------
(* Meals *)

\* d.update(e); {**d, **e}
RECURSIVE dict_update(_, _)
dict_update(d, e) ==
    IF e = <<>> THEN d
    ELSE dict_update(dict_put(d, Head(e)[1], Head(e)[2]), Tail(e))

\* all_foods of log_meal: the built-in table, the custom foods read at the
\* start, and the foods defined since, in the order of foods
all_foods_of(m) ==
    dict_update(dict_update(CALORIE_DATABASE, m.custom_foods),
                m.new_custom_foods)

\* int(x) of a float: towards zero
trunc_div(a, b) == IF a >= 0 THEN a \div b ELSE 0 - ((0 - a) \div b)

\* One entry of the loop of log_meal other than "done".  grams is held in
\* tenths, so (grams / 100) * calories_per_100g is grams * calories / 1000;
\* the amounts of the model are those for which the float product is exact.
log_meal_entry(m, entry, calories_input, grams_input) ==
    LET all_foods == all_foods_of(m)
        foods == dict_keys(all_foods)
        number == to_int(entry)
        idx == number[1] - 1
        is_new == number = None /\ ~dict_has(all_foods, entry)
        typed_calories == to_int(calories_input)
        food_name == IF number # None THEN foods[idx + 1] ELSE entry
        calories_per_100g == IF is_new THEN typed_calories[1]
                             ELSE dict_get(all_foods, food_name)
        defined == IF is_new
                   THEN [m EXCEPT !.new_custom_foods =
                            dict_put(@, food_name, typed_calories[1])]
                   ELSE m
        grams == to_float(grams_input)
        calories == trunc_div(grams[1] * calories_per_100g, 1000)
    IN  IF number # None /\ ~(0 <= idx /\ idx < Len(foods))
        THEN [meal |-> m, status |-> "Invalid number"]
        ELSE IF is_new /\ typed_calories = None
        THEN [meal |-> m, status |-> "Invalid calories"]
        ELSE IF grams = None
        THEN [meal |-> defined, status |-> "Invalid amount"]
        ELSE [meal |-> [defined EXCEPT !.meals_today =
                           Append(@, Meal(date_part(now), now.hm, food_name,
                                          grams[1], calories))],
              status |-> "Added"]

\* main, choice "3": log_meal reads the custom foods and lists the foods
LogMealStart ==
    /\ pc = "menu"
    /\ IF load_raises(CUSTOM_FOODS_FILE) THEN Crashed("JSONDecodeError")
       ELSE /\ pc' = "log_meal"
            /\ meal' = [custom_foods |-> load_dict_data(CUSTOM_FOODS_FILE),
                        new_custom_foods |-> <<>>, meals_today |-> <<>>]
            /\ out' = [op |-> "foods"]
            /\ UNCHANGED <<now, fs, fault, session>>

MealEntry(entries, calories, amounts) ==
    /\ pc = "log_meal"
    /\ \E entry_input \in entries, calories_input \in calories,
          grams_input \in amounts :
          LET entry == lower(strip(entry_input))
              r == log_meal_entry(meal, entry, calories_input, grams_input)
          IN  /\ entry # <<"d","o","n","e">>
              /\ meal' = r.meal
              /\ out' = [op |-> "meal entry", status |-> r.status]
              /\ UNCHANGED <<now, fs, pc, fault, session>>

\* the two writes in the other order
meals_first == <<"save_meals", "save_custom_foods">>

\* After "done" log_meal writes the new custom foods, then the meals.
save_order == <<"save_custom_foods", "save_meals">>

after_save(step) == IF step = save_order[1] THEN save_order[2] ELSE "menu"

MealDone ==
    /\ pc = "log_meal"
    /\ pc' = save_order[1]
    /\ out' = [op |-> "done"]
    /\ UNCHANGED <<now, fs, fault, session, meal>>

\* if new_custom_foods: ... save_data(CUSTOM_FOODS_FILE, existing_custom)
SaveCustomFoods ==
    /\ pc = "save_custom_foods"
    /\ IF meal.new_custom_foods # <<>> /\ load_raises(CUSTOM_FOODS_FILE)
       THEN Crashed("JSONDecodeError")
       ELSE /\ fs' = IF meal.new_custom_foods # <<>>
                     THEN save_data(fs, CUSTOM_FOODS_FILE,
                              dict_update(load_dict_data(CUSTOM_FOODS_FILE),
                                          meal.new_custom_foods))
                     ELSE fs
            /\ pc' = after_save("save_custom_foods")
            /\ meal' = IF pc' = "menu" THEN NoMeal ELSE meal
            /\ out' = [op |-> "custom foods saved"]
            /\ UNCHANGED <<now, fault, session>>

\* if meals_today: ... save_data(MEALS_FILE, meals)
SaveMeals ==
    /\ pc = "save_meals"
    /\ IF meal.meals_today # <<>> /\ load_raises(MEALS_FILE)
       THEN Crashed("JSONDecodeError")
       ELSE /\ fs' = IF meal.meals_today # <<>>
                     THEN save_data(fs, MEALS_FILE,
                              extend(load_data(MEALS_FILE), meal.meals_today))
                     ELSE fs
            /\ pc' = after_save("save_meals")
            /\ meal' = IF pc' = "menu" THEN NoMeal ELSE meal
            /\ out' = IF meal.meals_today # <<>>
                      THEN [op |-> "meal logged",
                            total |-> sum_calories(meal.meals_today)]
                      ELSE [op |-> "no meal"]
            /\ UNCHANGED <<now, fault, session>>

-----------------------------------------------------------------------------
(* History and calories *)

RECURSIVE reversed(_)
reversed(s) == IF s = <<>> THEN <<>> ELSE Append(reversed(Tail(s)), Head(s))

\* workouts[-10:]
HistoryShown == 10

\* view_workout_history with the typed choice and, for choice "2", the
\* typed number of the body part
view_workout_history(choice, part_input) ==
    LET workouts == load_data(WORKOUT_FILE)
        parts == dict_keys(BODY_PARTS)
        number == to_int(part_input)
        idx == number[1] - 1
        filtered ==
            IF strip(choice) = <<"2">> /\ number # None
                /\ 0 <= idx /\ idx < Len(parts)
            THEN SelectSeq(workouts, LAMBDA w : w.body_part = parts[idx + 1])
            ELSE workouts
    IN  IF workouts = <<>> THEN [op |-> "history", status |-> "no workouts"]
        ELSE IF filtered = <<>> THEN [op |-> "history", status |-> "no matching"]
        ELSE [op |-> "history", status |-> "shown",
              shown |-> reversed(last_n(filtered, HistoryShown))]

\* main, choice "4"
ViewWorkoutHistory(choices, parts) ==
    /\ pc = "menu"
    /\ IF load_raises(WORKOUT_FILE) THEN Crashed("JSONDecodeError")
       ELSE /\ \E choice \in choices, part_input \in parts :
                  out' = view_workout_history(choice, part_input)
            /\ UNCHANGED <<now, fs, pc, fault, session, meal>>

\* goal = 2000
CalorieGoal == 2000

view_calories ==
    LET meals == load_data(MEALS_FILE)
        today == date_part(now)
        today_meals == SelectSeq(meals, LAMBDA m : m.date = today)
        total == sum_calories(today_meals)
    IN  IF today_meals = <<>> THEN [op |-> "calories", status |-> "no meals"]
        ELSE [op |-> "calories", status |-> "shown",
              today_meals |-> today_meals, total |-> total,
              remaining |-> CalorieGoal - total]

\* main, choice "7"
ViewCalories ==
    /\ pc = "menu"
    /\ IF load_raises(MEALS_FILE) THEN Crashed("JSONDecodeError")
       ELSE /\ out' = view_calories
            /\ UNCHANGED <<now, fs, pc, fault, session, meal>>

-----------------------------------------------------------------------------
(* The program *)

\* if __name__ == "__main__": main() -- the program is started again
Restart ==
    /\ pc \in {"crashed", "exited"}
    /\ pc' = "menu"
    /\ fault' = "none"
    /\ out' = NoOutput
    /\ UNCHANGED <<now, fs, session, meal>>

\* The stores are kept to MaxWorkouts workouts and MaxMeals meals.
MaxWorkouts == 2
MaxMeals == 2

\* what the user types
MuscleInputs == {<<7, 1>>, <<6, 6>>}
TemplateChoices == {None, Some(1)}
ExerciseChoices == {1, 6}
ListedChoices == {1}
ExerciseNames == {<<"s","q","u","a","t">>}
SetsInputs == {<<<<"3">>>>}
RepsInputs == {<<<<"t","e","n">>>>}
WeightInputs == {<<>>, <<"5","k","g">>}
RestInputs == {<<"n">>, <<"2">>}
SaveAsInputs == {<<"n">>, <<"Y">>}
TemplateNames == {<<"l","e","g"," ","d","a","y">>}
FoodInputs == {<<"1">>, <<"P","o","k","e">>, <<"9","9">>}
CalorieInputs == {<<"1","5","0">>, <<"x">>}
GramInputs == {<<"1","0","0">>, <<"x">>}
HistoryChoices == {<<"1">>, <<"2">>}
PartInputs == {<<"6">>, <<"1">>, <<"x">>}

\* The program starts at its menu; each of its four files is missing or
\* holds something that is not a JSON document.
Init ==
    /\ now = Stamp(1, 0)
    /\ fs \in [Paths -> {Missing, Corrupt}]
    /\ pc = "menu"
    /\ fault = "none"
    /\ session = NoSession
    /\ meal = NoMeal
    /\ out = NoOutput

Session == StartSession(MuscleInputs)
Template == UseTemplate(TemplateChoices)
Exercise ==
    /\ Len(load_data(WORKOUT_FILE)) + Len(session.session_workouts)
          < MaxWorkouts
    /\ LogExercise(ListedChoices, ExerciseNames, SetsInputs, RepsInputs,
                   WeightInputs, RestInputs)
Done == WorkoutDone(SaveAsInputs, TemplateNames)
Food ==
    /\ Len(load_data(MEALS_FILE)) + Len(meal.meals_today) < MaxMeals
    /\ MealEntry(FoodInputs, CalorieInputs, GramInputs)
HistoryView == ViewWorkoutHistory(HistoryChoices, PartInputs)

Next ==
    \/ Session
    \/ Template
    \/ Exercise
    \/ TimerTick
    \/ TimerUp
    \/ TimerSkip
    \/ Done
    \/ LogMealStart
    \/ Food
    \/ MealDone
    \/ SaveCustomFoods
    \/ SaveMeals
    \/ HistoryView
    \/ ChartView
    \/ ViewWeeklySummary
    \/ ViewCalories
    \/ ExitMenu
    \/ Restart

Spec == Init /\ [][Next]_vars

IsPrefix(s, t) == Len(s) <= Len(t) /\ SubSeq(t, 1, Len(s)) = s

CustomFoods == load_dict_data(CUSTOM_FOODS_FILE)

\* C4: in every step of the program the persisted workouts and the persisted
\* meals keep their earlier contents as an unchanged prefix, and what a step
\* adds to a store is the entries of the session (of the meal) in the order
\* in which they were logged.
C4_StoresGrowOnlyAtTheEnd ==
    [][/\ IsPrefix(History, History')
       /\ IsPrefix(MealLog, MealLog')
       /\ History' # History
            => History' = History \o session.session_workouts
       /\ MealLog' # MealLog => MealLog' = MealLog \o meal.meals_today]_vars

\* C4 witness: a session of one exercise has been appended to a store that
\* held a different entry, beside a meal store that grew to two meals.
C4_Witness ==
    /\ out.op = "session done" /\ out.logged = 1
    /\ Len(History) = 2 /\ History[1] # History[2]
    /\ Len(MealLog) = 2 /\ MealLog[1] # MealLog[2]

\* C5 as claimed: loading a persisted collection never crashes, be its file
\* missing or corrupt, so no menu operation ends in a decoding error.
C5_NoCrashOnMissingOrCorruptStore ==
    fault # "JSONDecodeError" /\ pc # "crashed"

\* C10: every food of a persisted meal is a key of the built-in calorie
\* table or of the persisted custom foods, in every state (also between the
\* two writes of log_meal), and no step removes a persisted custom food.
C10_MealFoodsStayKnown ==
    /\ [](\A i \in 1..Len(MealLog) :
            \/ dict_has(CALORIE_DATABASE, MealLog[i].food)
            \/ dict_has(CustomFoods, MealLog[i].food))
    /\ [][\A i \in 1..Len(CustomFoods) :
            dict_has(CustomFoods', CustomFoods[i][1])]_vars

\* C10 witness: a meal of a food defined during log_meal has been written,
\* the food being by then a persisted custom food and not a built-in one.
C10_Witness ==
    /\ out.op = "meal logged"
    /\ \E i \in 1..Len(MealLog) :
          /\ ~dict_has(CALORIE_DATABASE, MealLog[i].food)
          /\ dict_has(CustomFoods, MealLog[i].food)

-----------------------------------------------------------------------------
(* Sessions with every kind of answer to the sets and reps prompts *)

\* The store and the running session hold at most MaxLogged entries.
MaxLogged == 2

\* what the user has ready for a sets or reps prompt: zero, a negative
\* number, text, then a number word; the word for zero, then padded digits
SessionCounts ==
    {<<<<"0">>, <<"-","2">>, <<"a","b","c">>, <<"t","e","n">>>>, <<<<"z","e","r","o">>, <<" ","4"," ">>>>}
SessionWeights == {<<"5","k","g">>, <<"6","K","G">>}

\* The store is missing or holds one lift of an earlier session.
SessionStores ==
    {Missing,
     Stored(<<Workout(Stamp(0, 0), "legs", <<"S","q","u","a","t">>, 3, 10, <<"5","k","g">>,
                      <<"legs">>)>>)}

InitSession ==
    /\ now = Stamp(1, 0)
    /\ \E f \in SessionStores :
          fs = [p \in Paths |-> IF p = WORKOUT_FILE THEN f ELSE Missing]
    /\ pc = "menu"
    /\ fault = "none"
    /\ session = NoSession
    /\ meal = NoMeal
    /\ out = NoOutput

SessionStart == StartSession(MuscleInputs)
SessionExercise ==
    /\ Len(load_data(WORKOUT_FILE)) + Len(session.session_workouts)
          < MaxLogged
    /\ LogExercise(ExerciseChoices, ExerciseNames, SessionCounts,
                   SessionCounts, SessionWeights, {<<"n">>})
SessionDone == WorkoutDone({<<"n">>}, TemplateNames)

SpecSession ==
    InitSession /\ [][SessionStart \/ SessionExercise \/ SessionDone]_vars

\* C11: every workout entry of the persisted store, and every entry a
\* session holds for it, has sets > 0 and reps > 0, whatever was typed at
\* the two prompts.
C11_StoredSetsAndRepsArePositive ==
    /\ \A i \in 1..Len(History) : History[i].sets > 0 /\ History[i].reps > 0
    /\ \A i \in 1..Len(session.session_workouts) :
          /\ session.session_workouts[i].sets > 0
          /\ session.session_workouts[i].reps > 0

\* C11 witness: a session has stored an entry whose sets were typed as "0",
\* "-2", "abc", "ten" and whose reps as "zero", " 4 ".
C11_Witness ==
    /\ out.op = "session done"
    /\ \E i \in 1..Len(History) :
          /\ History[i].date = now
          /\ History[i].sets = 10
          /\ History[i].reps = 4

InSession == pc \in {"log_workout", "rest_timer"}

\* C15: the record check of an exercise logged in a session compares with
\* the persisted store only (a lift of an exercise the store does not hold
\* is a first lift, whatever the session holds already; otherwise it is a
\* record exactly when it is above the heaviest stored lift), the store does
\* not change while the session runs, and "Workout Done" appends the whole
\* session in one write.
C15_RecordCheckSeesOnlyTheStore ==
    /\ [](out.op = "logged" /\ parse_weight(out.workout.weight) # None
            => IF Parseable(out.workout.exercise) = {}
               THEN out.pr = <<TRUE, None>>
               ELSE out.pr[1] <=>
                      parse_weight(out.workout.weight)[1]
                          > PriorBest(out.workout.exercise))
    /\ [][/\ (InSession /\ InSession') => History' = History
          /\ History' # History
                => /\ pc = "log_workout"
                   /\ History' = History \o session.session_workouts]_vars

\* C15 witness: on an empty store a session holds a 6KG squat and then a
\* 5kg squat, and the second, lower lift was announced as a first lift too.
C15_Witness ==
    /\ out.op = "logged"
    /\ History = <<>>
    /\ Len(session.session_workouts) = 2
    /\ lower(session.session_workouts[1].exercise)
          = lower(session.session_workouts[2].exercise)
    /\ session.session_workouts[1].weight = <<"6","K","G">>
    /\ session.session_workouts[2].weight = <<"5","k","g">>
    /\ out.workout = session.session_workouts[2]
    /\ out.pr = <<TRUE, None>>

-----------------------------------------------------------------------------
(* Meals with every kind of number at the grams prompt *)

\* The store and the running log_meal hold at most MaxMealLog meals.
MaxMealLog == 2

\* amounts for which (grams / 100) * calories is exact in floating point
MealGrams == {<<"1","0","0">>, <<"0">>, <<"-","5","0">>, <<"x">>}

InitMeal ==
    /\ now = Stamp(1, 0)
    /\ fs = [p \in Paths |-> Missing]
    /\ pc = "menu"
    /\ fault = "none"
    /\ session = NoSession
    /\ meal = NoMeal
    /\ out = NoOutput

MealFood ==
    /\ Len(load_data(MEALS_FILE)) + Len(meal.meals_today) < MaxMealLog
    /\ MealEntry({<<"1">>, <<"P","o","k","e">>}, {<<"1","5","0">>}, MealGrams)

SpecMeal ==
    InitMeal /\ [][\/ LogMealStart
                   \/ MealFood
                   \/ MealDone
                   \/ SaveCustomFoods
                   \/ SaveMeals]_vars

\* C12 as claimed: every meal entry of the persisted meals has grams > 0 and
\* calories >= 0, whatever number was typed at the grams prompt.
C12_StoredGramsArePositive ==
    \A i \in 1..Len(MealLog) :
        MealLog[i].grams > 0 /\ MealLog[i].calories >= 0

-----------------------------------------------------------------------------
(* The rest timer *)

\* The store and the running session hold at most MaxRests exercises, each
\* followed by the rest prompt.
MaxRests == 2

\* answers to the rest prompt: no timer ("n", nothing), a number of
\* seconds (positive, zero, negative), and text, which gives the default
TimerRests == {<<"n">>, <<>>, <<"2">>, <<"0">>, <<"-","3">>, <<"a","b","c">>}

InitTimer ==
    /\ now = Stamp(1, 0)
    /\ fs = [p \in Paths |-> Missing]
    /\ pc = "menu"
    /\ fault = "none"
    /\ session = NoSession
    /\ meal = NoMeal
    /\ out = NoOutput

TimerSession == StartSession(MuscleInputs)
TimerExercise ==
    /\ Len(load_data(WORKOUT_FILE)) + Len(session.session_workouts)
          < MaxRests
    /\ LogExercise({1}, ExerciseNames, SetsInputs, RepsInputs, {<<>>},
                   TimerRests)
TimerDone == WorkoutDone({<<"n">>}, TemplateNames)

NextTimer ==
    \/ TimerSession
    \/ TimerExercise
    \/ TimerTick
    \/ TimerUp
    \/ TimerSkip
    \/ TimerDone

\* time.sleep(1) returns and the loop of rest_timer goes on: a countdown
\* that can tick or end eventually does.
SpecTimer ==
    /\ InitTimer
    /\ [][NextTimer]_vars
    /\ WF_vars(TimerTick)
    /\ WF_vars(TimerUp)

\* C13: rest_timer always completes and raises nothing: uninterrupted it
\* ends after exactly max(seconds, 0) ticks; an interrupt can arrive during
\* every tick and ends the wait at once, before the ticks are used up; and
\* the timer is always left for the next exercise prompt of the session,
\* whose entries it does not touch.
C13_RestTimerCompletes ==
    /\ [](fault = "none" /\ pc # "crashed")
    /\ [](out.op = "time is up"
            => out.slept = IF out.seconds > 0 THEN out.seconds ELSE 0)
    /\ [](out.op = "timer skipped" => out.slept < out.seconds)
    /\ [](pc = "rest_timer" /\ session.slept < session.seconds
            => ENABLED TimerSkip)
    /\ [][pc = "rest_timer" /\ pc' # "rest_timer"
            => /\ pc' = "log_workout"
               /\ out'.op \in {"time is up", "timer skipped"}
               /\ session'.session_workouts = session.session_workouts]_vars
    /\ (pc = "rest_timer" ~> pc = "log_workout")

\* C13 witness: the default timer (the answer was text) has run out after
\* its 90 ticks and the session is back at the exercise prompt.
C13_Witness ==
    /\ pc = "log_workout"
    /\ out.op = "time is up"
    /\ out.seconds = DefaultRest
    /\ out.slept = DefaultRest

-----------------------------------------------------------------------------
(* Read-only operations *)

\* what the read-only operations leave on screen: the weekly summary, the
\* streak at exit, the record check of a logged exercise, the progress
\* view, the history view and today's calories
ReadOnlyOps ==
    {"weekly", "exit", "logged", "check_pr", "progress", "history", "calories"}

====
